---- MODULE Spec2Model ----
(***************************************************************************)
(* A model of the video-classification pipeline:                           *)
(*   - run.py main(): one train-mode or eval-mode run at a time, sharing   *)
(*     the working directory (./splits.npy, the checkpoint, the frame      *)
(*     directories) with the runs before and after it;                     *)
(*   - preprocess.py preprocess_video(): the loop that turns every .avi    *)
(*     file into a directory of numbered frame images, and the sequence    *)
(*     dataset that later reads such a directory.                          *)
(* The modules run.py imports (video_datasets, train, test, utils, models) *)
(* are not part of the sources at hand; the operators that stand for them  *)
(* follow the written specification of the repository.                     *)
(***************************************************************************)
EXTENDS Integers, Sequences, FiniteSets, TLC

\* ------------------------------------------------------------------ bounds
\* Videos in every class directory of a frame directory.
VidsPerClass == 2
\* Train-mode runs in one behaviour (eval-mode runs change no file and are
\* not counted).
MaxTrainRuns == 2
\* Largest n_epochs a run is started with.
MaxEpochs == 2
\* Validation losses are drawn from 1..MaxLoss.
MaxLoss == 2
\* Random seeds a shuffle is drawn with.
MaxSeeds == 2
\* Files in the video directory tree.
MaxFiles == 2
\* Dot-separated parts of a file name ("v.1.avi" has three).
MaxSegments == 3

\* ------------------------------------------------------- program constants
\* n_frames=16 in preprocess_video's call of get_frames.
PreprocessFrames == 16
\* default of -fpv/--fr_per_vid.
DefaultFrPerVid == 16

\* ---------------------------------------------------------------- helpers
SeqToSet(s) == {s[i] : i \in DOMAIN s}

Min2(a, b) == IF a <= b THEN a ELSE b

Max2(a, b) == IF a >= b THEN a ELSE b

\* Python's sorted() on the class names of the model: their alphabetical order.
ClassOrder == <<"a", "b", "c">>

\* The frame directories of the working directory and the class directories
\* each holds.  'UCF50' is the directory eval mode lists; "frames" is another
\* directory a run can be given with -fd.
FrameDirs == {"UCF50", "frames"}

DirClasses(d) == IF d = "UCF50" THEN {"a", "b"} ELSE {"b", "c"}

\* sorted(os.listdir(d)): the classes of d in alphabetical order.
RECURSIVE SortedFrom(_, _)
SortedFrom(cs, i) ==
    IF i > Len(ClassOrder) THEN <<>>
    ELSE (IF ClassOrder[i] \in cs THEN <<ClassOrder[i]>> ELSE <<>>)
         \o SortedFrom(cs, i + 1)

SortedListing(d) == SortedFrom(DirClasses(d), 1)

\* os.listdir(d): the entries "in arbitrary order" (Python's documentation):
\* every ordering of the directory's entries is a possible result.
ListDir(d) ==
    {s \in [1..Cardinality(DirClasses(d)) -> DirClasses(d)] :
        \A i, j \in DOMAIN s : i # j => s[i] # s[j]}

\* {x : i for i, x in enumerate(cats)}
EnumerateDict(cats) ==
    [c \in SeqToSet(cats) |-> (CHOOSE i \in DOMAIN cats : cats[i] = c) - 1]

\* ---- decimal text of an integer, as numpy stores it in a string array
Digits == <<"0", "1", "2", "3", "4", "5", "6", "7", "8", "9">>

RECURSIVE IntToStr(_)
IntToStr(n) ==
    IF n < 10 THEN <<Digits[n + 1]>>
    ELSE IntToStr(n \div 10) \o <<Digits[(n % 10) + 1]>>

DigitValue(ch) == (CHOOSE i \in DOMAIN Digits : Digits[i] = ch) - 1

\* int(text)
RECURSIVE StrToInt(_)
StrToInt(s) ==
    IF Len(s) = 0 THEN 0
    ELSE 10 * StrToInt(SubSeq(s, 1, Len(s) - 1)) + DigitValue(s[Len(s)])

\* ------------------------------------------------------- video_datasets.py
\* load_dataset(frame_dir): the label dictionary (ids in sorted order of the
\* class directories) and the flat list of (path, label) samples.
LoadLabelDict(d) == EnumerateDict(SortedListing(d))

LoadSamples(d) ==
    LET cats == SortedListing(d)
        n    == Len(cats) * VidsPerClass
    IN  [i \in 1..n |->
            LET c == cats[((i - 1) \div VidsPerClass) + 1]
                v == ((i - 1) % VidsPerClass) + 1
            IN  <<<<d, c, v>>, LoadLabelDict(d)[c]>>]

\* (train_size, test_size) in tenths, train_size + test_size <= 1.
Proportions == {<<7, 1>>, <<5, 5>>}

\* The number of samples a proportion p (in tenths) takes out of n: the
\* specification fixes no rounding, so both roundings are outcomes.
Counts(n, p) == {(n * p) \div 10, (n * p + 9) \div 10}

\* The orders a shuffle of n samples is drawn from: one per random seed, seed
\* k giving the rotation by k.
Shuffles(n) ==
    {[i \in 1..n |-> ((i - 1 + k) % n) + 1] : k \in 0..(Min2(MaxSeeds, n) - 1)}

\* dataset_split(S, train_size, test_size): every <<train, val, test>> it can
\* return: S in shuffled order, cut into a train part, a test part and the
\* remainder (validation).
dataset_split(S, tr, ts) ==
    LET n == Len(S)
    IN  {<< [i \in 1..nTr |-> S[perm[i]]],
            [i \in 1..(n - nTr - nTs) |-> S[perm[nTr + nTs + i]]],
            [i \in 1..nTs |-> S[perm[nTr + i]]] >> :
            <<perm, nTr, nTs>> \in
                {x \in Shuffles(n) \X Counts(n, tr) \X Counts(n, ts) :
                    x[2] >= 1 /\ x[2] + x[3] <= n}}

\* ------------------------------------------------------------------ state
VARIABLES
    \* the working directory
    splitsFile,     \* ./splits.npy
    splitsOrigin,   \* history: the load_dataset result behind ./splits.npy
    ckptFile,       \* the checkpoint file
    trainRuns,      \* train-mode runs started so far
    \* the run in progress (main's locals)
    pc, args, model, vid_dataset, label_dict,
    tr_split, val_split, ts_split,
    epoch, best_loss, loss_hist,
    targets, outputs, accuracy,
    all_cats, labels_dict, test_report, confusion_matrix,
    stdout,
    \* preprocess.py and the sequence dataset
    ppc, videoFiles, todo, processed, frameStore, fr_per_vid, ds_frames, item

fsVars == <<splitsFile, splitsOrigin, ckptFile, trainRuns>>

splitVars == <<vid_dataset, label_dict, tr_split, val_split, ts_split>>

trainVars == <<epoch, best_loss, loss_hist>>

evalVars == <<targets, outputs, accuracy, all_cats, labels_dict,
              test_report, confusion_matrix, stdout>>

runVars == <<fsVars, pc, args, model, splitVars, trainVars, evalVars>>

preVars == <<ppc, videoFiles, todo, processed, frameStore, fr_per_vid, ds_frames, item>>

vars == <<runVars, preVars>>

\* ------------------------------------------------------------ file contents
NoSplits == [exists |-> FALSE, train |-> <<>>, val |-> <<>>, test |-> <<>>]

NoOrigin == [frame_dir |-> "", label_dict |-> <<>>, samples |-> <<>>,
             train |-> <<>>, test |-> <<>>]

\* Model parameters are named by the training that made them: the train-mode
\* run, the epoch after which they were read, and the paths that run trained
\* on.  Fresh parameters (LRCN's constructor) are run 0, epoch 0.
FreshParams == [run |-> 0, epoch |-> 0, trained_on |-> {}]

NoCkpt == [exists |-> FALSE, n_classes |-> 0, params |-> FreshParams]

NoArgs == [mode |-> "", n_classes |-> 0, n_epochs |-> 0]

NoModel == [built |-> FALSE, n_classes |-> 0, params |-> FreshParams]

\* float('inf') as the first best validation loss.
Infinity == MaxLoss + 1

Paths(split) == {split[i][1] : i \in DOMAIN split}

\* np.array(list of (path, label)): a string array; every label is stored as
\* its decimal text.
NpArray(split) == [i \in DOMAIN split |-> <<split[i][1], IntToStr(split[i][2])>>]

\* [(sample[0], int(sample[1])) for sample in array]
ParseSplit(arr) == [i \in DOMAIN arr |-> <<arr[i][1], StrToInt(arr[i][2])>>]

\* ------------------------------------------------------------------ test.py
\* test(model, loader): the number of samples whose predicted class is the
\* true class, counted sample by sample.
RECURSIVE CountCorrect(_, _)
CountCorrect(ts, os) ==
    IF Len(ts) = 0 THEN 0
    ELSE (IF Head(ts) = Head(os) THEN 1 ELSE 0) + CountCorrect(Tail(ts), Tail(os))

\* '{:.4f}'.format(100 * accuracy), in units of 0.0001 percent.
Percent4(acc) == (acc[1] * 1000000 * 2 + acc[2]) \div (2 * acc[2])

\* The label dictionary used for reporting must match the model's output
\* dimensionality (LabelMismatchError).
LabelMismatch(cats, n_classes) == Len(cats) # n_classes

RECURSIVE CountPairs(_, _, _, _)
CountPairs(ts, os, t, p) ==
    IF Len(ts) = 0 THEN 0
    ELSE (IF Head(ts) = t /\ Head(os) = p THEN 1 ELSE 0)
         + CountPairs(Tail(ts), Tail(os), t, p)

\* get_test_report(targets, outputs, cats): per class name, its support
\* (samples of that true class) and its correctly predicted samples.
get_test_report(ts, os, cats) ==
    [c \in SeqToSet(cats) |->
        LET id == EnumerateDict(cats)[c]
        IN  [support |-> Cardinality({i \in DOMAIN ts : ts[i] = id}),
             correct |-> CountPairs(ts, os, id, id)]]

\* get_confusion_matrix(targets, outputs, labels_dict, cats): rows are true
\* classes, columns predicted classes, cells counts.
get_confusion_matrix(ts, os, ld, cats) ==
    LET ids == {ld[c] : c \in SeqToSet(cats)}
    IN  [t \in ids |-> [p \in ids |-> CountPairs(ts, os, t, p)]]

\* -------------------------------------------------------------------- Init
InitRun ==
    /\ splitsFile = NoSplits
    /\ splitsOrigin = NoOrigin
    /\ ckptFile = NoCkpt
    /\ trainRuns = 0
    /\ pc = "idle"
    /\ args = NoArgs
    /\ model = NoModel
    /\ vid_dataset = <<>>
    /\ label_dict = <<>>
    /\ tr_split = <<>>
    /\ val_split = <<>>
    /\ ts_split = <<>>
    /\ epoch = 0
    /\ best_loss = Infinity
    /\ loss_hist = <<>>
    /\ targets = <<>>
    /\ outputs = <<>>
    /\ accuracy = <<0, 0>>
    /\ all_cats = <<>>
    /\ labels_dict = <<>>
    /\ test_report = <<>>
    /\ confusion_matrix = <<>>
    /\ stdout = <<>>

\* ------------------------------------------------------------- run.py main
\* args_parser(): the options this run is started with.  -m takes any string
\* (no choices= is given); "test" stands for every mode that is neither
\* 'train' nor 'eval'.  n_epochs is read by train mode only and keeps one
\* value otherwise; frame_dir, train_size and test_size are read once, by
\* train mode, and are drawn where they are read.
ArgsFor(mode) ==
    {[mode |-> mode, n_classes |-> nc, n_epochs |-> ne] :
        nc \in {2, 3},
        ne \in IF mode = "train" THEN 1..MaxEpochs ELSE {1}}

StartRun ==
    /\ pc = "idle"
    /\ \E mode \in {"train", "eval", "test"} :
        /\ mode = "train" => trainRuns < MaxTrainRuns
        /\ \E a \in ArgsFor(mode) : args' = a
        /\ trainRuns' = IF mode = "train" THEN trainRuns + 1 ELSE trainRuns
    /\ pc' = "start"
    /\ UNCHANGED <<splitsFile, splitsOrigin, ckptFile, model, splitVars,
                   trainVars, evalVars, preVars>>

\* transform_stats, compose_data_transforms, LRCN(...): the model is built
\* before the mode is looked at.
BuildModel ==
    /\ pc = "start"
    /\ model' = [built |-> TRUE, n_classes |-> args.n_classes,
                 params |-> FreshParams]
    /\ pc' = "built"
    /\ UNCHANGED <<fsVars, args, splitVars, trainVars, evalVars, preVars>>

\* TrainSplitSave with the train split saved under the key 'val' as well.
TrainSplitSave_ValFromTrain ==
    /\ pc = "built"
    /\ args.mode = "train"
    /\ \E frame_dir \in FrameDirs, sizes \in Proportions :
        LET S == LoadSamples(frame_dir)
        IN  /\ vid_dataset' = S
            /\ label_dict' = LoadLabelDict(frame_dir)
            /\ \E sp \in dataset_split(S, sizes[1], sizes[2]) :
                 /\ tr_split' = sp[1]
                 /\ val_split' = sp[2]
                 /\ ts_split' = sp[3]
                 /\ splitsFile' = [exists |-> TRUE,
                                   train |-> NpArray(sp[1]),
                                   val |-> NpArray(sp[1]),
                                   test |-> NpArray(sp[3])]
                 /\ splitsOrigin' = [frame_dir |-> frame_dir,
                                     label_dict |-> LoadLabelDict(frame_dir),
                                     samples |-> S,
                                     train |-> sp[1], test |-> sp[3]]
    /\ pc' = "split_saved"
    /\ UNCHANGED <<ckptFile, trainRuns, args, model, trainVars, evalVars,
                   preVars>>

\* mode == 'train': load_dataset, dataset_split, np.save('./splits.npy').
TrainSplitSave ==
    /\ pc = "built"
    /\ args.mode = "train"
    /\ \E frame_dir \in FrameDirs, sizes \in Proportions :
        LET S == LoadSamples(frame_dir)
        IN  /\ vid_dataset' = S
            /\ label_dict' = LoadLabelDict(frame_dir)
            /\ \E sp \in dataset_split(S, sizes[1], sizes[2]) :
                 /\ tr_split' = sp[1]
                 /\ val_split' = sp[2]
                 /\ ts_split' = sp[3]
                 /\ splitsFile' = [exists |-> TRUE,
                                   train |-> NpArray(sp[1]),
                                   val |-> NpArray(sp[2]),
                                   test |-> NpArray(sp[3])]
                 /\ splitsOrigin' = [frame_dir |-> frame_dir,
                                     label_dict |-> LoadLabelDict(frame_dir),
                                     samples |-> S,
                                     train |-> sp[1], test |-> sp[3]]
    /\ pc' = "split_saved"
    /\ UNCHANGED <<ckptFile, trainRuns, args, model, trainVars, evalVars,
                   preVars>>

\* Datasets, loaders, loss, optimizer, scheduler, ./models; then train() is
\* entered: no epoch done, no best loss yet.
TrainSetup ==
    /\ pc = "split_saved"
    /\ epoch' = 0
    /\ best_loss' = Infinity
    /\ loss_hist' = <<>>
    /\ pc' = "training"
    /\ UNCHANGED <<fsVars, args, model, splitVars, evalVars, preVars>>

\* TrainEpoch with the checkpoint rewritten when the validation loss only
\* equals the best one (<= for <).
TrainEpoch_RewritesOnTie ==
    /\ pc = "training"
    /\ epoch < args.n_epochs
    /\ \E val_loss \in 1..MaxLoss :
        LET params == [run |-> trainRuns, epoch |-> epoch + 1,
                       trained_on |-> Paths(tr_split)]
        IN  /\ model' = [model EXCEPT !.params = params]
            /\ IF val_loss <= best_loss
               THEN /\ best_loss' = val_loss
                    /\ ckptFile' = [exists |-> TRUE,
                                    n_classes |-> model.n_classes,
                                    params |-> params]
               ELSE UNCHANGED <<best_loss, ckptFile>>
            /\ loss_hist' = Append(loss_hist, val_loss)
    /\ epoch' = epoch + 1
    /\ UNCHANGED <<splitsFile, splitsOrigin, trainRuns, pc, args, splitVars,
                   evalVars, preVars>>

\* train(): one epoch: train phase, validation phase, checkpoint decision,
\* history.
TrainEpoch ==
    /\ pc = "training"
    /\ epoch < args.n_epochs
    /\ \E val_loss \in 1..MaxLoss :
        LET params == [run |-> trainRuns, epoch |-> epoch + 1,
                       trained_on |-> Paths(tr_split)]
        IN  /\ model' = [model EXCEPT !.params = params]
            /\ IF val_loss < best_loss
               THEN /\ best_loss' = val_loss
                    /\ ckptFile' = [exists |-> TRUE,
                                    n_classes |-> model.n_classes,
                                    params |-> params]
               ELSE UNCHANGED <<best_loss, ckptFile>>
            /\ loss_hist' = Append(loss_hist, val_loss)
    /\ epoch' = epoch + 1
    /\ UNCHANGED <<splitsFile, splitsOrigin, trainRuns, pc, args, splitVars,
                   evalVars, preVars>>

\* train() returns after n_epochs epochs.
TrainFinish ==
    /\ pc = "training"
    /\ epoch = args.n_epochs
    /\ pc' = "train_done"
    /\ UNCHANGED <<fsVars, args, model, splitVars, trainVars, evalVars, preVars>>

\* A failure during a batch (out of memory, numerical instability) aborts the
\* run inside the epoch in progress: no checkpoint is taken for it.
TrainAbort ==
    /\ pc = "training"
    /\ epoch < args.n_epochs
    /\ pc' = "train_error"
    /\ UNCHANGED <<fsVars, args, model, splitVars, trainVars, evalVars, preVars>>

\* EvalLoadSplits reading the key 'val' for 'test'.
EvalLoadSplits_ValKey ==
    /\ pc = "built"
    /\ args.mode = "eval"
    /\ IF splitsFile.exists
       THEN /\ ts_split' = ParseSplit(splitsFile.val)
            /\ pc' = "splits_loaded"
       ELSE /\ pc' = "eval_error"
            /\ UNCHANGED ts_split
    /\ UNCHANGED <<fsVars, args, model, vid_dataset, label_dict, tr_split,
                   val_split, trainVars, evalVars, preVars>>

\* mode == 'eval': np.load('./splits.npy'), the test split with int labels,
\* the test dataset and loader.
EvalLoadSplits ==
    /\ pc = "built"
    /\ args.mode = "eval"
    /\ IF splitsFile.exists
       THEN /\ ts_split' = ParseSplit(splitsFile.test)
            /\ pc' = "splits_loaded"
       ELSE /\ pc' = "eval_error"
            /\ UNCHANGED ts_split
    /\ UNCHANGED <<fsVars, args, model, vid_dataset, label_dict, tr_split,
                   val_split, trainVars, evalVars, preVars>>

\* model.load_state_dict(torch.load(args.ckpt)): fails when there is no
\* checkpoint or its shapes are not those of the model just built.
EvalLoadCkpt ==
    /\ pc = "splits_loaded"
    /\ IF ckptFile.exists /\ ckptFile.n_classes = model.n_classes
       THEN /\ model' = [model EXCEPT !.params = ckptFile.params]
            /\ pc' = "ckpt_loaded"
       ELSE /\ pc' = "eval_error"
            /\ UNCHANGED model
    /\ UNCHANGED <<fsVars, args, splitVars, trainVars, evalVars, preVars>>

\* test(model, dataloaders['test'], device): the true labels, the predicted
\* classes (an argmax over n_classes logits) and the accuracy.
EvalTest ==
    /\ pc = "ckpt_loaded"
    /\ IF Len(ts_split) = 0
       THEN /\ pc' = "eval_error"
            /\ UNCHANGED <<targets, outputs, accuracy>>
       ELSE /\ targets' = [i \in DOMAIN ts_split |-> ts_split[i][2]]
            /\ \E os \in [DOMAIN ts_split -> 0..(model.n_classes - 1)] :
                 /\ outputs' = os
                 /\ accuracy' = <<CountCorrect(targets', os), Len(ts_split)>>
            /\ pc' = "tested"
    /\ UNCHANGED <<fsVars, args, model, splitVars, trainVars, all_cats,
                   labels_dict, test_report, confusion_matrix, stdout, preVars>>

\* all_cats = os.listdir('UCF50'); labels_dict = {x: i for i, x in enumerate(all_cats)}
EvalLabels ==
    /\ pc = "tested"
    /\ \E cats \in ListDir("UCF50") :
        /\ all_cats' = cats
        /\ labels_dict' = EnumerateDict(cats)
    /\ pc' = "labels_built"
    /\ UNCHANGED <<fsVars, args, model, splitVars, trainVars, targets, outputs,
                   accuracy, test_report, confusion_matrix, stdout, preVars>>

\* print('The overall test accuracy is {:.4f}%.'.format(100 * accuracy))
EvalPrintAccuracy ==
    /\ pc = "labels_built"
    /\ stdout' = Append(stdout, <<"accuracy", Percent4(accuracy)>>)
    /\ pc' = "accuracy_printed"
    /\ UNCHANGED <<fsVars, args, model, splitVars, trainVars, targets, outputs,
                   accuracy, all_cats, labels_dict, test_report,
                   confusion_matrix, preVars>>

\* test_report = get_test_report(targets, outputs, all_cats); pprint(test_report)
EvalReport ==
    /\ pc = "accuracy_printed"
    /\ IF LabelMismatch(all_cats, model.n_classes)
       THEN /\ pc' = "eval_error"
            /\ UNCHANGED <<test_report, stdout>>
       ELSE /\ test_report' = get_test_report(targets, outputs, all_cats)
            /\ stdout' = Append(stdout, <<"report", test_report'>>)
            /\ pc' = "report_printed"
    /\ UNCHANGED <<fsVars, args, model, splitVars, trainVars, targets, outputs,
                   accuracy, all_cats, labels_dict, confusion_matrix, preVars>>

\* EvalConfusion with targets and outputs passed in each other's place.
EvalConfusion_SwappedArgs ==
    /\ pc = "report_printed"
    /\ IF LabelMismatch(all_cats, model.n_classes)
       THEN /\ pc' = "eval_error"
            /\ UNCHANGED <<confusion_matrix, stdout>>
       ELSE /\ confusion_matrix' =
                  get_confusion_matrix(outputs, targets, labels_dict, all_cats)
            /\ stdout' = Append(stdout, <<"confusion", confusion_matrix'>>)
            /\ pc' = "eval_done"
    /\ UNCHANGED <<fsVars, args, model, splitVars, trainVars, targets, outputs,
                   accuracy, all_cats, labels_dict, test_report, preVars>>

\* confusion_matrix = get_confusion_matrix(targets, outputs, labels_dict,
\* all_cats); pprint(confusion_matrix)
EvalConfusion ==
    /\ pc = "report_printed"
    /\ IF LabelMismatch(all_cats, model.n_classes)
       THEN /\ pc' = "eval_error"
            /\ UNCHANGED <<confusion_matrix, stdout>>
       ELSE /\ confusion_matrix' =
                  get_confusion_matrix(targets, outputs, labels_dict, all_cats)
            /\ stdout' = Append(stdout, <<"confusion", confusion_matrix'>>)
            /\ pc' = "eval_done"
    /\ UNCHANGED <<fsVars, args, model, splitVars, trainVars, targets, outputs,
                   accuracy, all_cats, labels_dict, test_report, preVars>>

\* else: raise ValueError('The mode argument must be either "train" or "eval".')
ModeError ==
    /\ pc = "built"
    /\ args.mode \notin {"train", "eval"}
    /\ pc' = "config_error"
    /\ UNCHANGED <<fsVars, args, model, splitVars, trainVars, evalVars, preVars>>

Finished == {"train_done", "train_error", "eval_done", "eval_error", "config_error"}

\* The process ends: its memory is gone, the files stay.
ExitRun ==
    /\ pc \in Finished
    /\ pc' = "idle"
    /\ args' = NoArgs
    /\ model' = NoModel
    /\ vid_dataset' = <<>>
    /\ label_dict' = <<>>
    /\ tr_split' = <<>>
    /\ val_split' = <<>>
    /\ ts_split' = <<>>
    /\ epoch' = 0
    /\ best_loss' = Infinity
    /\ loss_hist' = <<>>
    /\ targets' = <<>>
    /\ outputs' = <<>>
    /\ accuracy' = <<0, 0>>
    /\ all_cats' = <<>>
    /\ labels_dict' = <<>>
    /\ test_report' = <<>>
    /\ confusion_matrix' = <<>>
    /\ stdout' = <<>>
    /\ UNCHANGED <<fsVars, preVars>>

\* ------------------------------------------------------------ preprocess.py
\* A file name is the sequence of its dot-separated parts: <<"v", "avi">> is
\* "v.avi", <<"avi">> is "avi".
Segments == {"v", "avi"}

Filenames == UNION {[1..n -> Segments] : n \in 1..MaxSegments}

\* The class directories of UCF50_video.
VideoClasses == {"a", "b"}

\* Frame counts of the video files: a clip shorter than the sampled number of
\* frames and a longer one.
VideoLens == {PreprocessFrames \div 2, 2 * PreprocessFrames}

\* filename.endswith(".avi")
IsAvi(name) == Len(name) >= 2 /\ name[Len(name)] = "avi"

\* os.path.join(store_path, dir, filename.split('.')[0])
StorePath(dir, name) == <<dir, name[1]>>

\* get_frames(vid_path, n_frames): the sampled frames of a video of v_len
\* frames, each named by its video and its position.
get_frames(file, v_len, n_frames) ==
    [i \in 1..Min2(v_len, n_frames) |-> <<file, i>>]

\* store_frames(frames, path): frame i is written to the i-th numbered image
\* of the directory; images already there under other numbers stay.
store_frames(frames, old) ==
    [i \in 1..Max2(Len(frames), Len(old)) |->
        IF i <= Len(frames) THEN frames[i] ELSE old[i]]

DirContent(store, path) == IF path \in DOMAIN store THEN store[path] ELSE <<>>

\* The values -fpv is given: below, at and above the default.
FrPerVidChoices == {DefaultFrPerVid \div 2, DefaultFrPerVid, DefaultFrPerVid + 1}

NoItem == [path |-> <<>>, frames |-> <<>>]

\* The sets of at most k elements of S.
RECURSIVE SubsetsUpTo(_, _)
SubsetsUpTo(S, k) ==
    IF k = 0 THEN {{}}
    ELSE LET smaller == SubsetsUpTo(S, k - 1)
         IN  smaller \cup {x \cup {e} : x \in smaller, e \in S}

InitPreprocess ==
    /\ ppc = "preprocess"
    /\ videoFiles \in SubsetsUpTo(VideoClasses \X Filenames, MaxFiles)
    /\ todo = videoFiles
    /\ processed = {}
    /\ frameStore = <<>>
    /\ fr_per_vid = DefaultFrPerVid
    /\ ds_frames = 0
    /\ item = NoItem

\* One pass of the body of the two loops of preprocess_video, for one entry
\* of os.listdir(os.path.join(video_dir, dir)).
ProcessFile ==
    /\ ppc = "preprocess"
    /\ \E f \in todo :
        /\ IF IsAvi(f[2])
           THEN \E v_len \in VideoLens :
                  LET frames == get_frames(f, v_len, PreprocessFrames)
                      path   == StorePath(f[1], f[2])
                  IN  frameStore' =
                        [q \in DOMAIN frameStore \cup {path} |->
                            IF q = path
                            THEN store_frames(frames, DirContent(frameStore, path))
                            ELSE frameStore[q]]
           ELSE UNCHANGED frameStore
        /\ todo' = todo \ {f}
        /\ processed' = processed \cup {f}
    /\ UNCHANGED <<ppc, videoFiles, fr_per_vid, ds_frames, item, runVars>>

\* The loops are over: "Frames extracted and stored in ...".
PreprocessDone ==
    /\ ppc = "preprocess"
    /\ todo = {}
    /\ ppc' = "stored"
    /\ UNCHANGED <<videoFiles, todo, processed, frameStore, fr_per_vid,
                   ds_frames, item, runVars>>

\* MakeDataset with the frame count of preprocessing passed for -fpv.
MakeDataset_PreprocessFrames ==
    /\ ppc = "stored"
    /\ \E n \in FrPerVidChoices :
        /\ fr_per_vid' = n
        /\ ds_frames' = PreprocessFrames
    /\ ppc' = "dataset"
    /\ UNCHANGED <<videoFiles, todo, processed, frameStore, item, runVars>>

\* run.py: VideoDataset(split, fr_per_vid, transforms) with the -fpv option.
MakeDataset ==
    /\ ppc = "stored"
    /\ \E n \in FrPerVidChoices :
        /\ fr_per_vid' = n
        /\ ds_frames' = n
    /\ ppc' = "dataset"
    /\ UNCHANGED <<videoFiles, todo, processed, frameStore, item, runVars>>

\* VideoDataset.__getitem__: the first ds_frames images of the sample's
\* directory in file-name order; InsufficientFramesError when the directory
\* holds fewer.
DatasetGetItem ==
    /\ ppc \in {"dataset", "yielded"}
    /\ \E path \in DOMAIN frameStore :
        IF Len(frameStore[path]) >= ds_frames
        THEN /\ item' = [path |-> path,
                         frames |-> SubSeq(frameStore[path], 1, ds_frames)]
             /\ ppc' = "yielded"
        ELSE /\ item' = [path |-> path, frames |-> <<>>]
             /\ ppc' = "insufficient_frames"
    /\ UNCHANGED <<videoFiles, todo, processed, frameStore, fr_per_vid,
                   ds_frames, runVars>>

NextPreprocess ==
    \/ ProcessFile
    \/ PreprocessDone
    \/ MakeDataset
    \/ DatasetGetItem

InitPre == InitRun /\ InitPreprocess

SpecPreprocess == InitPre /\ [][NextPreprocess]_vars

\* ------------------------------------------------------------------ claims
TrainPcs == {"split_saved", "training", "train_done", "train_error"}

EvalLoadedPcs == {"splits_loaded", "ckpt_loaded", "tested", "labels_built",
                  "accuracy_printed", "report_printed", "eval_done"}

EvalTestedPcs == {"tested", "labels_built", "accuracy_printed",
                  "report_printed", "eval_done"}

EvalLabelledPcs == {"labels_built", "accuracy_printed", "report_printed",
                    "eval_done"}

\* C1: in a train-mode run, the three lists persisted in ./splits.npy under
\* 'train', 'val' and 'test' are pairwise disjoint, hold no sample twice, and
\* their union is exactly the sample list load_dataset returned.
C1_SplitRecordPartitionsSamples ==
    pc \in TrainPcs =>
        LET T == SeqToSet(ParseSplit(splitsFile.train))
            V == SeqToSet(ParseSplit(splitsFile.val))
            E == SeqToSet(ParseSplit(splitsFile.test))
        IN  /\ splitsFile.exists
            /\ T \cap V = {}
            /\ T \cap E = {}
            /\ V \cap E = {}
            /\ T \cup V \cup E = SeqToSet(vid_dataset)
            /\ Len(splitsFile.train) + Len(splitsFile.val)
                 + Len(splitsFile.test) = Len(vid_dataset)

\* A split record with three non-empty parts has just been saved.
C1_Witness ==
    /\ pc = "split_saved"
    /\ Len(splitsFile.train) >= 1
    /\ Len(splitsFile.val) >= 1
    /\ Len(splitsFile.test) >= 1

\* The earliest epoch with the least loss of a non-empty history.
EarliestBest(hist) ==
    CHOOSE e \in DOMAIN hist :
        /\ \A j \in DOMAIN hist : hist[e] <= hist[j]
        /\ \A j \in 1..(e - 1) : hist[j] > hist[e]

\* C2: after every completed epoch k of a training run, the history has k
\* entries and the checkpoint holds this run's parameters of the epoch with
\* the least validation loss among epochs 1..k, the earliest one on a tie.
C2_CheckpointIsEarliestBestEpoch ==
    (pc \in {"training", "train_done", "train_error"} /\ epoch >= 1) =>
        /\ Len(loss_hist) = epoch
        /\ ckptFile.exists
        /\ ckptFile.params.run = trainRuns
        /\ ckptFile.params.epoch = EarliestBest(loss_hist)

\* Two epochs tied for the least loss; the checkpoint is the first one's.
C2_Witness ==
    /\ pc = "training"
    /\ epoch = 2
    /\ loss_hist[1] = loss_hist[2]
    /\ ckptFile.params.epoch = 1

\* C3: the label dictionary eval mode reports with is the label dictionary
\* load_dataset built in the train-mode run that produced ./splits.npy.
C3_EvalLabelsAreTrainingLabels ==
    pc \in EvalLabelledPcs => labels_dict = splitsOrigin.label_dict

\* C4: the samples eval mode feeds to the test dataset are the test split the
\* last train-mode run produced, in its order, every label the same integer.
C4_TestSplitRoundTrip ==
    pc \in EvalLoadedPcs => ts_split = splitsOrigin.test

\* Eval mode has read back a test split of two samples of different classes.
C4_Witness ==
    /\ pc = "splits_loaded"
    /\ Len(ts_split) >= 2
    /\ \E i, j \in DOMAIN ts_split : ts_split[i][2] # ts_split[j][2]

\* C5: when the mode is neither 'train' nor 'eval', the error is raised with
\* no model constructed and no dataset loaded.
C5_ModeErrorBeforeAnyWork ==
    pc = "config_error" =>
        /\ ~model.built
        /\ vid_dataset = <<>>
        /\ ts_split = <<>>

\* C6: an eval-mode run that ends in an evaluation error has printed no
\* metric: neither the accuracy, nor the report, nor the confusion matrix.
C6_NoMetricBeforeEvalError ==
    pc = "eval_error" => stdout = <<>>

Abs(x) == IF x >= 0 THEN x ELSE -x

RECURSIVE SumOver(_, _)
SumOver(f, D) ==
    IF D = {} THEN 0
    ELSE LET d == CHOOSE x \in D : TRUE
         IN  f[d] + SumOver(f, D \ {d})

Hits == {i \in DOMAIN ts_split : outputs[i] = ts_split[i][2]}

\* C8: the printed accuracy is (samples whose predicted label is the true
\* label) / (samples), to the four printed decimals of the percentage, and
\* each row sum of the printed confusion matrix is the number of test samples
\* of that row's true class.
C8_ReportedMetricsMatchSamples ==
    /\ pc \in {"accuracy_printed", "report_printed", "eval_done"} =>
        /\ stdout[1][1] = "accuracy"
        /\ accuracy[1] * Len(ts_split) = Cardinality(Hits) * accuracy[2]
        /\ 2 * Abs(stdout[1][2] * Len(ts_split) - 1000000 * Cardinality(Hits))
             <= Len(ts_split)
    /\ pc = "eval_done" =>
        /\ stdout[3][1] = "confusion"
        /\ \A t \in DOMAIN stdout[3][2] :
              SumOver(stdout[3][2][t], DOMAIN stdout[3][2][t])
                = Cardinality({i \in DOMAIN ts_split : ts_split[i][2] = t})

\* An evaluation of two samples or more, one of them mispredicted, has
\* printed its confusion matrix.
C8_Witness ==
    /\ pc = "eval_done"
    /\ Len(ts_split) >= 2
    /\ Cardinality(Hits) < Len(ts_split)
    /\ Cardinality(Hits) >= 1

\* C9: the samples an eval-mode run evaluates are disjoint from the training
\* split of the train-mode run that produced the checkpoint it loaded.
C9_EvalDisjointFromCheckpointTraining ==
    pc \in EvalTestedPcs => Paths(ts_split) \cap model.params.trained_on = {}

C10_OneDirectoryPerVideo ==
    /\ \A f, g \in processed :
          (f # g /\ f[1] = g[1] /\ IsAvi(f[2]) /\ IsAvi(g[2]))
             => StorePath(f[1], f[2]) # StorePath(g[1], g[2])
    /\ \A path \in DOMAIN frameStore :
          \E f \in processed : IsAvi(f[2]) /\ StorePath(f[1], f[2]) = path

\* ------------------------------------------------------- specifications
InitPreIdle ==
    /\ ppc = "off"
    /\ videoFiles = {}
    /\ todo = {}
    /\ processed = {}
    /\ frameStore = <<>>
    /\ fr_per_vid = DefaultFrPerVid
    /\ ds_frames = 0
    /\ item = NoItem

Init == InitRun /\ InitPreIdle

Next ==
    \/ StartRun
    \/ BuildModel
    \/ TrainSplitSave
    \/ TrainSetup
    \/ TrainEpoch
    \/ TrainFinish
    \/ TrainAbort
    \/ EvalLoadSplits
    \/ EvalLoadCkpt
    \/ EvalTest
    \/ EvalLabels
    \/ EvalPrintAccuracy
    \/ EvalReport
    \/ EvalConfusion
    \/ ModeError
    \/ ExitRun

Spec == Init /\ [][Next]_vars

====
